---- MODULE Spec2Model ----
(***************************************************************************)
(* Model of package secfetch (Fetch Metadata request gatekeeper).          *)
(*                                                                         *)
(* The state is a set of request slots.  Every slot holds one in-flight    *)
(* request, the response recorder it writes to, the position of the        *)
(* handler chain that serves it, and what the wrapper did on its behalf.   *)
(* The only state shared between requests is the request logger tl.        *)
(***************************************************************************)
EXTENDS Integers, Sequences, FiniteSets, TLC

VARIABLES pc, cfg, req, w, decision, seen, calls, tl

vars == <<pc, cfg, req, w, decision, seen, calls, tl>>

(* Number of requests in flight at once in the concurrent specification. *)
NumReq == 2

----------------------------------------------------------------------------
(* net/http and net/http/httptest as the package and its tests use them.   *)

StatusOK == 200
StatusForbidden == 403
StatusNotFound == 404

(* Constants of the tests and of ProtectHandler. *)
private == "User Data"
public == "Public Data"
denyMessage == "Invalid resource access"
notFoundMessage == "404 page not found"

(* textproto.CanonicalMIMEHeaderKey on the two keys the package reads. *)
CanonicalKey(k) ==
    CASE k \in {"sec-fetch-site", "Sec-Fetch-Site", "SEC-FETCH-SITE"} -> "Sec-Fetch-Site"
      [] k \in {"sec-fetch-mode", "Sec-Fetch-Mode", "SEC-FETCH-MODE"} -> "Sec-Fetch-Mode"
      [] OTHER -> k

(* http.Header.Get: first value stored under the canonical key, "" if none. *)
HeaderGet(h, k) ==
    LET vs == h[CanonicalKey(k)]
    IN  IF Len(vs) = 0 THEN "" ELSE vs[1]

(* http.Header.Set: replaces the values under the canonical key by one. *)
HeaderSet(h, k, v) == [h EXCEPT ![CanonicalKey(k)] = <<v>>]

EmptyHeader == [x \in {"Sec-Fetch-Site", "Sec-Fetch-Mode"} |-> <<>>]

(* httptest.NewRequest followed by the two Header.Set calls of the tests. *)
NewRequest(method, path, site, mode) ==
    [Method |-> method,
     Path   |-> path,
     Header |-> HeaderSet(HeaderSet(EmptyHeader, "sec-fetch-site", site),
                          "sec-fetch-mode", mode)]

(* httptest.NewRecorder. *)
NewRecorder == [Code |-> StatusOK, wroteHeader |-> FALSE, Body |-> <<>>]

(* ResponseRecorder.WriteHeader: only the first call sets the code. *)
WriteHeader(rw, code) ==
    IF rw.wroteHeader THEN rw
    ELSE [rw EXCEPT !.Code = code, !.wroteHeader = TRUE]

(* ResponseRecorder.Write: implies WriteHeader(200), appends to the body. *)
Write(rw, chunk) ==
    LET rw1 == WriteHeader(rw, StatusOK)
    IN  [rw1 EXCEPT !.Body = Append(@, chunk)]

(* fmt.Fprintf(w, s) with no verbs: one Write of s. *)
Fprintf(rw, s) == Write(rw, s)

(* fmt.Fprintln(w, s): one Write of s followed by a newline. *)
Fprintln(rw, s) == Write(rw, s \o "\n")

(* bytes.Contains(w.Body.Bytes(), data) for a body made of whole writes. *)
Contains(body, data) == \E k \in 1..Len(body) : body[k] = data

(* http.NotFound. *)
NotFound(rw) == Fprintln(WriteHeader(rw, StatusNotFound), notFoundMessage)

----------------------------------------------------------------------------
(* The decision predicate. *)

allowedNoFailOpen(r) ==
    LET site == HeaderGet(r.Header, "sec-fetch-site")
        mode == HeaderGet(r.Header, "sec-fetch-mode")
    IN  IF site = "none" \/ site = "same-site" \/ site = "same-origin"
        THEN TRUE
        ELSE IF mode = "navigate" /\ r.Method = "GET"
             THEN TRUE
             ELSE FALSE

allowedAnyNavigation(r) ==
    LET site == HeaderGet(r.Header, "sec-fetch-site")
        mode == HeaderGet(r.Header, "sec-fetch-mode")
    IN  IF site = "" \/ site = "none" \/ site = "same-site" \/ site = "same-origin"
        THEN TRUE
        ELSE IF mode = "navigate" /\ r.Method \in {"GET", "HEAD"}
             THEN TRUE
             ELSE FALSE

allowed(r) ==
    LET site == HeaderGet(r.Header, "sec-fetch-site")
        mode == HeaderGet(r.Header, "sec-fetch-mode")
    IN  IF site = "" \/ site = "none" \/ site = "same-site" \/ site = "same-origin"
        THEN TRUE
        ELSE IF mode = "navigate" /\ r.Method = "GET"
             THEN TRUE
             ELSE FALSE

----------------------------------------------------------------------------
(* Handler configurations, as the tests build them.                        *)
(*   "enforce": ProtectHandler(data handler)                               *)
(*   "logonly": ProtectHandlerLogOnly(data handler, &tl)                   *)
(*   "exempt" : mux{"/" -> ProtectHandler(&pmux), "/unprotected" -> public}*)
(*              with pmux{"/protected" -> private}                         *)

Configs == {"enforce", "logonly", "exempt"}

(* The handler of the tests that prints the user data. *)
DataHandler(rw, r) == Fprintf(rw, private)

(* The handler registered on "/unprotected". *)
PublicHandler(rw, r) == Fprintf(rw, public)

(* pmux.ServeHTTP: "/protected" is the only pattern. *)
pmux(rw, r) ==
    IF r.Path = "/protected" THEN Fprintf(rw, private) ELSE NotFound(rw)

(* The pattern of mux that serves a path: the longest one that matches. *)
muxFirstRegistered(path) == "/"

muxPattern(path) == IF path = "/unprotected" THEN "/unprotected" ELSE "/"

(* The handler h that the wrapper of a configuration wraps. *)
Wrapped(c, rw, r) == IF c = "exempt" THEN pmux(rw, r) ELSE DataHandler(rw, r)

----------------------------------------------------------------------------
(* Inputs. *)

SiteStrings == {"", "none", "same-site", "same-origin", "cross-site",
                "Same-Origin", "cross-origin"}
ModeStrings == {"", "navigate", "nested-navigate", "cors", "no-cors",
                "websocket", "unrecognized", "Navigate"}
Methods == {"GET", "HEAD", "POST", "OPTIONS", "PUT", "get"}

(* A header can be absent, hold one value, or hold several. *)
SiteValues == {<<>>} \cup {<<s>> : s \in SiteStrings}
                 \cup {<<"cross-site", "same-origin">>}
ModeValues == {<<>>} \cup {<<m>> : m \in ModeStrings}

Paths(c) == IF c = "exempt" THEN {"/protected", "/unprotected", "/other"}
            ELSE {"/"}

Requests(c) ==
    {[Method |-> m, Path |-> p,
      Header |-> [EmptyHeader EXCEPT !["Sec-Fetch-Site"] = s,
                                     !["Sec-Fetch-Mode"] = d]] :
        m \in Methods, p \in Paths(c), s \in SiteValues, d \in ModeValues}

(* The table of the tests. *)
checkTests ==
    {[site |-> "",            mode |-> "",                method |-> "POST",    want |-> TRUE],
     [site |-> "none",        mode |-> "",                method |-> "GET",     want |-> TRUE],
     [site |-> "cross-site",  mode |-> "",                method |-> "OPTIONS", want |-> TRUE],
     [site |-> "same-site",   mode |-> "websocket",       method |-> "HEAD",    want |-> TRUE],
     [site |-> "same-origin", mode |-> "unrecognized",    method |-> "POST",    want |-> TRUE],
     [site |-> "cross-site",  mode |-> "nested-navigate", method |-> "GET",     want |-> TRUE],
     [site |-> "cross-site",  mode |-> "navigate",        method |-> "HEAD",    want |-> TRUE],
     [site |-> "cross-site",  mode |-> "navigate",        method |-> "GET",     want |-> TRUE],
     [site |-> "cross-site",  mode |-> "navigate",        method |-> "POST",    want |-> FALSE],
     [site |-> "cross-site",  mode |-> "no-cors",         method |-> "GET",     want |-> FALSE],
     [site |-> "cross-site",  mode |-> "cors",            method |-> "POST",    want |-> FALSE]}

NoRequest == [Method |-> "", Path |-> "", Header |-> EmptyHeader]

Slots == DOMAIN pc

SiteOf(i) == HeaderGet(req[i].Header, "sec-fetch-site")
ModeOf(i) == HeaderGet(req[i].Header, "sec-fetch-mode")

----------------------------------------------------------------------------
(* Initial states: no request in flight, an empty log. *)

InitSlots(S) ==
    /\ pc = [i \in S |-> "idle"]
    /\ cfg = [i \in S |-> "none"]
    /\ req = [i \in S |-> NoRequest]
    /\ w = [i \in S |-> NewRecorder]
    /\ decision = [i \in S |-> "none"]
    /\ seen = [i \in S |-> <<>>]
    /\ calls = [i \in S |-> <<>>]
    /\ tl = <<>>

Init == InitSlots({1})

InitConc == InitSlots(1..NumReq)

(* Where a request enters the handler chain of its configuration. *)
Entry(c) == CASE c = "enforce" -> "protect"
              [] c = "logonly" -> "logonly"
              [] c = "exempt"  -> "mux"

Start(i, c, r) ==
    /\ pc[i] = "idle"
    /\ pc' = [pc EXCEPT ![i] = Entry(c)]
    /\ cfg' = [cfg EXCEPT ![i] = c]
    /\ req' = [req EXCEPT ![i] = r]
    /\ w' = [w EXCEPT ![i] = NewRecorder]
    /\ decision' = [decision EXCEPT ![i] = "none"]
    /\ seen' = [seen EXCEPT ![i] = <<>>]
    /\ calls' = [calls EXCEPT ![i] = <<>>]
    /\ UNCHANGED tl

(* A request with any method, path and headers arrives. *)
Arrive(i) == \E c \in Configs : \E r \in Requests(c) : Start(i, c, r)

(* A request of the test table arrives, built as the tests build it. *)
ArriveTest(i) ==
    \E c \in {"enforce", "logonly"} : \E tt \in checkTests :
        Start(i, c, NewRequest(tt.method, "/", tt.site, tt.mode))

----------------------------------------------------------------------------
(* The outer router of the exempt configuration: mux.ServeHTTP.  The      *)
(* exempt pattern runs its handler directly, every other path goes to the  *)
(* protected subtree.                                                      *)

MuxServeHTTP(i) ==
    /\ pc[i] = "mux"
    /\ IF muxPattern(req[i].Path) = "/unprotected"
       THEN /\ w' = [w EXCEPT ![i] = PublicHandler(w[i], req[i])]
            /\ pc' = [pc EXCEPT ![i] = "done"]
       ELSE /\ pc' = [pc EXCEPT ![i] = "protect"]
            /\ UNCHANGED w
    /\ UNCHANGED <<cfg, req, decision, seen, calls, tl>>

(* ProtectHandler: the test `if !allowed(r)`. *)
ProtectHandlerEagerHeader(i) ==
    /\ pc[i] = "protect"
    /\ decision' = [decision EXCEPT ![i] = IF allowed(req[i]) THEN "allow" ELSE "deny"]
    /\ pc' = [pc EXCEPT ![i] = IF allowed(req[i]) THEN "serve" ELSE "forbidden"]
    /\ w' = [w EXCEPT ![i] = IF allowed(req[i]) THEN WriteHeader(w[i], StatusOK) ELSE w[i]]
    /\ calls' = [calls EXCEPT ![i] = IF allowed(req[i]) THEN Append(@, "WriteHeader") ELSE @]
    /\ UNCHANGED <<cfg, req, seen, tl>>

ProtectHandler(i) ==
    /\ pc[i] = "protect"
    /\ decision' = [decision EXCEPT ![i] = IF allowed(req[i]) THEN "allow" ELSE "deny"]
    /\ pc' = [pc EXCEPT ![i] = IF allowed(req[i]) THEN "serve" ELSE "forbidden"]
    /\ UNCHANGED <<cfg, req, w, seen, calls, tl>>

(* ProtectHandler, deny: w.WriteHeader(http.StatusForbidden). *)
WriteForbiddenSharedWriter(i) ==
    /\ pc[i] = "forbidden"
    /\ w' = [w EXCEPT ![1] = WriteHeader(w[1], StatusForbidden)]
    /\ calls' = [calls EXCEPT ![i] = Append(@, "WriteHeader")]
    /\ pc' = [pc EXCEPT ![i] = "message"]
    /\ UNCHANGED <<cfg, req, decision, seen, tl>>

WriteForbidden(i) ==
    /\ pc[i] = "forbidden"
    /\ w' = [w EXCEPT ![i] = WriteHeader(w[i], StatusForbidden)]
    /\ calls' = [calls EXCEPT ![i] = Append(@, "WriteHeader")]
    /\ pc' = [pc EXCEPT ![i] = "message"]
    /\ UNCHANGED <<cfg, req, decision, seen, tl>>

(* ProtectHandler, deny: fmt.Fprintln(w, "Invalid resource access"); return. *)
WriteMessageNoReturn(i) ==
    /\ pc[i] = "message"
    /\ w' = [w EXCEPT ![i] = Fprintln(w[i], denyMessage)]
    /\ calls' = [calls EXCEPT ![i] = Append(@, "Fprintln")]
    /\ pc' = [pc EXCEPT ![i] = "serve"]
    /\ UNCHANGED <<cfg, req, decision, seen, tl>>

WriteMessage(i) ==
    /\ pc[i] = "message"
    /\ w' = [w EXCEPT ![i] = Fprintln(w[i], denyMessage)]
    /\ calls' = [calls EXCEPT ![i] = Append(@, "Fprintln")]
    /\ pc' = [pc EXCEPT ![i] = "done"]
    /\ UNCHANGED <<cfg, req, decision, seen, tl>>

(* ProtectHandlerLogOnly: the test `if !allowed(r)`. *)
ProtectHandlerLogOnlyEnforcing(i) ==
    /\ pc[i] = "logonly"
    /\ decision' = [decision EXCEPT ![i] = IF allowed(req[i]) THEN "allow" ELSE "deny"]
    /\ pc' = [pc EXCEPT ![i] = IF allowed(req[i]) THEN "serve" ELSE "forbidden"]
    /\ UNCHANGED <<cfg, req, w, seen, calls, tl>>

ProtectHandlerLogOnly(i) ==
    /\ pc[i] = "logonly"
    /\ decision' = [decision EXCEPT ![i] = IF allowed(req[i]) THEN "allow" ELSE "deny"]
    /\ pc' = [pc EXCEPT ![i] = IF allowed(req[i]) THEN "serve" ELSE "log"]
    /\ UNCHANGED <<cfg, req, w, seen, calls, tl>>

(* ProtectHandlerLogOnly, deny: rl.LogRequest(r), which appends r to tl.rs. *)
LogRequestAfterServe(i) ==
    /\ pc[i] = "log"
    /\ w' = [w EXCEPT ![i] = Wrapped(cfg[i], w[i], req[i])]
    /\ seen' = [seen EXCEPT ![i] = Append(@, req[i])]
    /\ tl' = Append(tl, i)
    /\ calls' = [calls EXCEPT ![i] = @ \o <<"ServeHTTP", "LogRequest">>]
    /\ pc' = [pc EXCEPT ![i] = "done"]
    /\ UNCHANGED <<cfg, req, decision>>

LogRequest(i) ==
    /\ pc[i] = "log"
    /\ tl' = Append(tl, i)
    /\ calls' = [calls EXCEPT ![i] = Append(@, "LogRequest")]
    /\ pc' = [pc EXCEPT ![i] = "serve"]
    /\ UNCHANGED <<cfg, req, w, decision, seen>>

(* Both wrappers: h.ServeHTTP(w, r), the wrapped handler runs. *)
ServeHTTP(i) ==
    /\ pc[i] = "serve"
    /\ w' = [w EXCEPT ![i] = Wrapped(cfg[i], w[i], req[i])]
    /\ seen' = [seen EXCEPT ![i] = Append(@, req[i])]
    /\ calls' = [calls EXCEPT ![i] = Append(@, "ServeHTTP")]
    /\ pc' = [pc EXCEPT ![i] = "done"]
    /\ UNCHANGED <<cfg, req, decision, tl>>

(* Every request in flight has been answered: the tests drop the          *)
(* requests and call tl.reset().                                           *)
reset ==
    /\ \A i \in Slots : pc[i] \in {"idle", "done"}
    /\ \E i \in Slots : pc[i] = "done"
    /\ pc' = [i \in Slots |-> "idle"]
    /\ cfg' = [i \in Slots |-> "none"]
    /\ req' = [i \in Slots |-> NoRequest]
    /\ w' = [i \in Slots |-> NewRecorder]
    /\ decision' = [i \in Slots |-> "none"]
    /\ seen' = [i \in Slots |-> <<>>]
    /\ calls' = [i \in Slots |-> <<>>]
    /\ tl' = <<>>

Next ==
    \/ \E i \in Slots : Arrive(i)
    \/ \E i \in Slots : MuxServeHTTP(i)
    \/ \E i \in Slots : ProtectHandler(i)
    \/ \E i \in Slots : WriteForbidden(i)
    \/ \E i \in Slots : WriteMessage(i)
    \/ \E i \in Slots : ProtectHandlerLogOnly(i)
    \/ \E i \in Slots : LogRequest(i)
    \/ \E i \in Slots : ServeHTTP(i)
    \/ reset

Spec == Init /\ [][Next]_vars

NextConc ==
    \/ \E i \in Slots : ArriveTest(i)
    \/ \E i \in Slots : ProtectHandler(i)
    \/ \E i \in Slots : WriteForbidden(i)
    \/ \E i \in Slots : WriteMessage(i)
    \/ \E i \in Slots : ProtectHandlerLogOnly(i)
    \/ \E i \in Slots : LogRequest(i)
    \/ \E i \in Slots : ServeHTTP(i)
    \/ reset

SpecConc == InitConc /\ [][NextConc]_vars

----------------------------------------------------------------------------
(* Properties. *)

SameSiteValues == {"", "none", "same-site", "same-origin"}

(* The requests that went through ProtectHandler. *)
Enforced(i) == cfg[i] \in {"enforce", "exempt"}

(* Number of LogRequest calls the logger received with request i. *)
Logged(i) == Cardinality({k \in 1..Len(tl) : tl[k] = i})

WrapperWrote(i) == \E k \in 1..Len(calls[i]) : calls[i][k] \in {"WriteHeader", "Fprintln"}

(* C1: a request whose sec-fetch-site is "", "none", "same-site" or        *)
(* "same-origin" is never denied, whatever its mode and method: once the   *)
(* wrapper has decided, the decision is allow, and the request never       *)
(* reaches the deny branch of either wrapper.                              *)
C1_FailOpenSameSite ==
    \A i \in Slots :
        (pc[i] # "idle" /\ SiteOf(i) \in SameSiteValues) =>
            /\ decision[i] \in {"none", "allow"}
            /\ pc[i] \notin {"forbidden", "message", "log"}
            /\ (pc[i] = "done" /\ decision[i] = "allow") => seen[i] = <<req[i]>>

C1_Witness ==
    \E i \in Slots :
        /\ pc[i] = "done" /\ decision[i] = "allow"
        /\ req[i].Header["Sec-Fetch-Site"] = <<>>
        /\ req[i].Method = "POST"
        /\ ModeOf(i) = "cors"

C3_DenyIs403 ==
    \A i \in Slots :
        (Enforced(i) /\ decision[i] = "deny") =>
            /\ seen[i] = <<>>
            /\ ~Contains(w[i].Body, "User Data")
            /\ pc[i] = "done" =>
                  /\ w[i].Code = 403
                  /\ w[i].Body = <<"Invalid resource access\n">>
                  /\ calls[i] = <<"WriteHeader", "Fprintln">>

C3_Witness ==
    \E i \in Slots :
        /\ cfg[i] = "enforce" /\ decision[i] = "deny" /\ pc[i] = "done"
        /\ w[i].Code = 403
        /\ SiteOf(i) = "cross-site" /\ ModeOf(i) = "cors" /\ req[i].Method = "POST"

(* C4: a request ProtectHandler allows reaches the wrapped handler exactly *)
(* once, with the original request and an untouched response writer, and   *)
(* the response is exactly what the wrapped handler produced; the wrapper  *)
(* writes to the response only on deny.                                    *)
C4_AllowForwardsUntouched ==
    \A i \in Slots :
        /\ (Enforced(i) /\ WrapperWrote(i)) => decision[i] = "deny"
        /\ (Enforced(i) /\ decision[i] = "allow") =>
              /\ pc[i] \in {"serve", "done"}
              /\ pc[i] = "serve" => (w[i] = NewRecorder /\ seen[i] = <<>>)
              /\ pc[i] = "done" =>
                    /\ seen[i] = <<req[i]>>
                    /\ calls[i] = <<"ServeHTTP">>
                    /\ w[i] = Wrapped(cfg[i], NewRecorder, req[i])

C4_Witness ==
    \E i \in Slots :
        /\ cfg[i] = "exempt" /\ decision[i] = "allow" /\ pc[i] = "done"
        /\ req[i].Path = "/other"
        /\ w[i].Code = 404
        /\ seen[i] = <<req[i]>>

(* C5: ProtectHandlerLogOnly never changes the response: allowed or        *)
(* denied, the wrapped handler is invoked exactly once with the original   *)
(* request and an untouched writer, and status and body are the wrapped    *)
(* handler's.                                                              *)
C5_LogOnlyNeverChangesResponse ==
    \A i \in Slots :
        cfg[i] = "logonly" =>
            /\ ~WrapperWrote(i)
            /\ pc[i] # "done" => (w[i] = NewRecorder /\ seen[i] = <<>>)
            /\ pc[i] = "done" =>
                  /\ seen[i] = <<req[i]>>
                  /\ w[i].Code = 200
                  /\ w[i].Body = <<"User Data">>

C5_Witness ==
    \E i \in Slots :
        /\ cfg[i] = "logonly" /\ decision[i] = "deny" /\ pc[i] = "done"
        /\ w[i].Code = 200 /\ w[i].Body = <<"User Data">>

(* C6: ProtectHandlerLogOnly calls LogRequest exactly once with the        *)
(* request when the predicate denies it and never when it allows it, and   *)
(* on deny the call comes before the wrapped handler is invoked.           *)
C6_LogExactlyOnDeny ==
    \A i \in Slots :
        cfg[i] = "logonly" =>
            /\ Logged(i) <= 1
            /\ allowed(req[i]) => Logged(i) = 0
            /\ (seen[i] # <<>> /\ ~allowed(req[i])) => Logged(i) = 1
            /\ pc[i] = "done" =>
                  calls[i] = IF allowed(req[i]) THEN <<"ServeHTTP">>
                             ELSE <<"LogRequest", "ServeHTTP">>

C6_Witness ==
    \E i \in Slots :
        /\ cfg[i] = "logonly" /\ pc[i] = "done"
        /\ ~allowed(req[i])
        /\ tl = <<i>>
        /\ calls[i] = <<"LogRequest", "ServeHTTP">>

(* C7: behind the router, a request to the exempt path always reaches its  *)
(* handler and gets 200, whatever its headers and method; a request to the *)
(* protected path gets 200 exactly when the predicate allows it; and a     *)
(* response that is not 200 never carries the protected handler's data.    *)
C7_ExemptByRouting ==
    \A i \in Slots :
        (cfg[i] = "exempt" /\ pc[i] = "done") =>
            /\ req[i].Path = "/unprotected" =>
                  /\ w[i].Code = 200
                  /\ w[i].Body = <<"Public Data">>
                  /\ decision[i] = "none"
            /\ req[i].Path = "/protected" => (w[i].Code = 200 <=> allowed(req[i]))
            /\ w[i].Code # 200 => ~Contains(w[i].Body, "User Data")

C7_Witness ==
    \E i \in Slots :
        /\ cfg[i] = "exempt" /\ pc[i] = "done"
        /\ req[i].Path = "/unprotected"
        /\ ~allowed(req[i])
        /\ w[i].Code = 200

(* C8: the test table wants cross-site navigations with HEAD and           *)
(* cross-site nested navigations with GET allowed: 200 with the wrapped    *)
(* handler's body from ProtectHandler, no LogRequest call from             *)
(* ProtectHandlerLogOnly.                                                  *)
C8_TableNavigationsAllowed ==
    \A i \in Slots :
        ( /\ pc[i] = "done"
          /\ SiteOf(i) = "cross-site"
          /\ \/ (ModeOf(i) = "navigate" /\ req[i].Method = "HEAD")
             \/ (ModeOf(i) = "nested-navigate" /\ req[i].Method = "GET") ) =>
            /\ cfg[i] = "enforce" => (w[i].Code = 200 /\ Contains(w[i].Body, "User Data"))
            /\ cfg[i] = "logonly" => Logged(i) = 0

(* C9: the test table wants the cross-site OPTIONS request with no         *)
(* sec-fetch-mode allowed: 200 with the wrapped handler's body from        *)
(* ProtectHandler, no LogRequest call from ProtectHandlerLogOnly, 200 on   *)
(* the protected path behind the router.                                   *)
C9_TablePreflightAllowed ==
    \A i \in Slots :
        ( /\ pc[i] = "done"
          /\ SiteOf(i) = "cross-site"
          /\ ModeOf(i) = ""
          /\ req[i].Method = "OPTIONS" ) =>
            /\ cfg[i] = "enforce" => (w[i].Code = 200 /\ Contains(w[i].Body, "User Data"))
            /\ cfg[i] = "logonly" => Logged(i) = 0
            /\ (cfg[i] = "exempt" /\ req[i].Path = "/protected") => w[i].Code = 200

(* C10: with several requests in flight and their steps interleaved in any *)
(* order, what happens to a request is a function of its own site, mode    *)
(* and method: its decision, its response at every step and the number of  *)
(* LogRequest calls made for it are what they are when it is served alone. *)
C10_RequestsIndependent ==
    \A i \in Slots :
        pc[i] # "idle" =>
            LET a == allowed(req[i])
                forwarded == [Code |-> 200, wroteHeader |-> TRUE, Body |-> <<"User Data">>]
                refused == [Code |-> 403, wroteHeader |-> TRUE,
                            Body |-> <<"Invalid resource access\n">>]
            IN  /\ decision[i] \in {"none", IF a THEN "allow" ELSE "deny"}
                /\ pc[i] \in {"protect", "logonly", "forbidden", "log", "serve"} =>
                      (w[i] = NewRecorder /\ seen[i] = <<>>)
                /\ pc[i] = "message" =>
                      (w[i] = [Code |-> 403, wroteHeader |-> TRUE, Body |-> <<>>]
                       /\ seen[i] = <<>>)
                /\ pc[i] = "done" =>
                      /\ w[i] = IF cfg[i] = "enforce" /\ ~a THEN refused ELSE forwarded
                      /\ seen[i] = IF cfg[i] = "enforce" /\ ~a THEN <<>> ELSE <<req[i]>>
                /\ Logged(i) = IF cfg[i] = "logonly" /\ ~a /\ pc[i] \in {"serve", "done"}
                               THEN 1 ELSE 0

C10_Witness ==
    \E i, j \in Slots :
        /\ i # j
        /\ i > j
        /\ cfg[i] = "enforce" /\ pc[i] = "message"
        /\ cfg[j] = "logonly" /\ pc[j] = "serve" /\ decision[j] = "deny"
        /\ req[i] = req[j]

====
